---- MODULE Spec2Model ----
(***************************************************************************)
(* Model of useAnimatedText (src/src/components/thread/animated-text.tsx). *)
(* One hook instance: its props, its React state (displayedText), its refs *)
(* (animationRef, lastFrameTimeRef, displayedLengthRef), the frame         *)
(* callbacks it has requested from requestAnimationFrame, the timeouts it  *)
(* has set, and the values its renders returned.                           *)
(***************************************************************************)
EXTENDS Integers, Sequences, FiniteSets, TLC

\* ------------------------------------------------------------------ bounds
MaxLen == 12
MaxTime == 3000
FrameMs == 1000
FastFrameMs == 125
MaxSparkles == 3
MaxSpawns == 7
RandDen == 2
MaxInterrupts == 2
HandlerIds == 2

\* ------------------------------------------------------- program constants
minCharsPerFrame == 1
ResetSlack == 10
CatchUpMs == 2000
maxIterations == 10
RollIntervalMs == 80
FlipDelayMs == 500
SubmitDelayMs == 1000

SUITS == <<"hearts", "diamonds", "clubs", "spades">>
VALUES == <<"A", "2", "3", "4", "5", "6", "7", "8", "9", "10", "J", "Q", "K">>

\* the time a user takes to act, and the longest wait that is measured
UserStepMs == SubmitDelayMs \div 2
MaxWaitMs == 2 * SubmitDelayMs

\* ------------------------------------------------------------------ inputs
\* Two messages with different content; a text is a prefix of one of them.
MsgA == [i \in 1..(MaxLen + 1) |-> i]
MsgB == [i \in 1..(MaxLen + 1) |-> 100 + i]
TextLens == {0, 1, 2, MaxLen}
Texts == {SubSeq(MsgA, 1, n) : n \in TextLens} \cup {SubSeq(MsgB, 1, n) : n \in {1, 2}}
Rates == {-1, 0, 2, 150}

VARIABLES
  targetText,          \* prop
  isStreaming,         \* prop
  enabled,             \* option
  charsPerSecond,      \* option
  displayedText,       \* useState
  animationRef,        \* useRef: handle of the last requested frame, 0 = null
  lastFrameTimeRef,    \* useRef
  displayedLengthRef,  \* useRef
  frames,              \* callbacks pending in requestAnimationFrame
  timeouts,            \* callbacks pending in setTimeout
  timeoutCleanup,      \* timeout id the catch-up effect's cleanup clears, 0 = none
  mounted,             \* the instance has not been torn down
  now,                 \* the clock, in ms
  streamingEndedAt,    \* when isStreaming last became false, -1 while it is true
  renders,             \* what the renders of the last step returned
  sparkles,            \* particle emitter: the live particles, oldest first
  nextSparkleId,       \* particle emitter: the id the next particle gets
  revealing,           \* particle emitter: the "actively revealing and enabled" signal
  clearPending,        \* particle emitter: the grace-delay clear is scheduled
  interrupt,           \* stream.interrupt
  nextInterruptId,     \* the id the next interrupt of the stream gets
  hasImage,            \* useLatestImage() returns an image
  isLargeScreen,       \* which of the two responders the style sheet displays
  handledInterruptRef, \* per responder: useRef, the key of the interrupt handled
  handlerVersion,      \* identity of the handleDiceSubmit / handleCardSubmit callbacks
  submits,             \* the calls of stream.submit since the last interrupt was raised
  deck,                \* Thread: useState deck
  savedDeck,           \* localStorage[STORAGE_KEY]
  dealt,               \* the cards dealt since the deck was last shuffled
  lastDraw,            \* the last call of drawCardsFromDeck since then, with its result
  roller,              \* per responder: the DiceRoller it renders
  drawer,              \* per responder: the CardDrawer it renders
  flips                \* the pending timeouts of CardDrawer.drawCards

sparkleVars == <<sparkles, nextSparkleId, revealing, clearPending>>

gameVars == <<interrupt, nextInterruptId, hasImage, isLargeScreen, handledInterruptRef,
              handlerVersion, submits, deck, savedDeck, dealt, lastDraw, roller,
              drawer, flips>>

hookVars == <<targetText, isStreaming, enabled, charsPerSecond, displayedText,
              animationRef, lastFrameTimeRef, displayedLengthRef, frames, timeouts,
              timeoutCleanup, mounted, now, streamingEndedAt, renders>>

vars == <<targetText, isStreaming, enabled, charsPerSecond, displayedText,
          animationRef, lastFrameTimeRef, displayedLengthRef, frames, timeouts,
          timeoutCleanup, mounted, now, streamingEndedAt, renders,
          sparkles, nextSparkleId, revealing, clearPending,
          interrupt, nextInterruptId, hasImage, isLargeScreen, handledInterruptRef,
          handlerVersion, submits, deck, savedDeck, dealt, lastDraw, roller,
          drawer, flips>>

\* ------------------------------------------------------------ pure helpers
Min(a, b) == IF a < b THEN a ELSE b
Max(a, b) == IF a > b THEN a ELSE b

\* String.prototype.slice(0, n) for n >= 0
Slice(text, n) == SubSeq(text, 1, Min(n, Len(text)))

\* (variant: the floor at minCharsPerFrame left out)
CharsToRevealUnfloored(elapsed, cps) == (elapsed * cps) \div 1000

\* Math.max(minCharsPerFrame, Math.floor((elapsed / 1000) * charsPerSecond))
CharsToReveal(elapsed, cps) == Max(minCharsPerFrame, (elapsed * cps) \div 1000)

\* the handle requestAnimationFrame / setTimeout returns: a positive id not in use
NewHandle(pending) == CHOOSE h \in 1..(Cardinality(pending) + 1) :
                        /\ \A p \in pending : p.id # h
                        /\ \A k \in 1..(h - 1) : \E p \in pending : p.id = k

\* the value a render of the hook returns, with the inputs it was rendered for
Render(text, en, shown, shownLen) ==
  [targetText |-> text, enabled |-> en, displayedText |-> shown,
   revealedLength |-> shownLen,
   isAnimating |-> shownLen < Len(text),
   progress |-> IF Len(text) > 0 THEN <<shownLen, Len(text)>> ELSE <<1, 1>>]

\* ------------------------------------------------------------ the card deck
DeckSize == Len(SUITS) * Len(VALUES)

\* the numbers of cards asked for: none, a few, the whole deck, one more
DrawCounts == {0, 1, 2, DeckSize, DeckSize + 1}

\* the streams loadDeck() shuffles with, and the sizes of the saved decks
InitStreams == {[n \in 1..(Len(SUITS) * Len(VALUES)) |-> n % RandDen]}
SavedDeckLens == {1}

\* Math.random() yields RandNum / RandDen; a shuffle consumes one value per
\* step, the n-th value of a stream
RandomStreams == {[n \in 1..(Len(SUITS) * Len(VALUES)) |-> (a + n) % RandDen] :
                    a \in 0..(RandDen - 1)}

\* (variant: every suit gets the values but the last)
CreateDeckShort ==
  [i \in 1..(Len(SUITS) * (Len(VALUES) - 1)) |->
     [suit |-> SUITS[((i - 1) \div (Len(VALUES) - 1)) + 1],
      value |-> VALUES[((i - 1) % (Len(VALUES) - 1)) + 1]]]

\* createDeck(): for each suit, for each value, push {suit, value}
CreateDeck ==
  [i \in 1..(Len(SUITS) * Len(VALUES)) |->
     [suit |-> SUITS[((i - 1) \div Len(VALUES)) + 1],
      value |-> VALUES[((i - 1) % Len(VALUES)) + 1]]]

\* the loop of shuffleDeck from index i (0-based) down to 1
RECURSIVE ShuffleFrom(_, _, _)
ShuffleFrom(shuffled, i, rnd) ==
  IF i <= 0 THEN shuffled
  ELSE LET j == (rnd[Len(shuffled) - i] * (i + 1)) \div RandDen
       IN ShuffleFrom([shuffled EXCEPT ![i + 1] = shuffled[j + 1],
                                       ![j + 1] = shuffled[i + 1]],
                      i - 1, rnd)

\* shuffleDeck(deck): Fisher-Yates on a copy
ShuffleDeck(d, rnd) == ShuffleFrom(d, Len(d) - 1, rnd)

\* Array.prototype.splice(0, count) for count >= 0: the removed elements and
\* what is left of the array
SpliceFront(arr, count) ==
  [removed |-> SubSeq(arr, 1, Min(count, Len(arr))),
   left |-> SubSeq(arr, Min(count, Len(arr)) + 1, Len(arr))]

\* (variant: the cards are spliced out of the deck passed in, not out of a copy)
DrawCardsFromDeckInPlace(d, count, rnd) ==
  IF Len(d) < count
    THEN LET sp == SpliceFront(ShuffleDeck(CreateDeck, rnd), count)
         IN [drawn |-> sp.removed, remaining |-> sp.left, reshuffled |-> TRUE,
             deck |-> d]
    ELSE LET sp == SpliceFront(d, count)
         IN [drawn |-> sp.removed, remaining |-> sp.left, reshuffled |-> FALSE,
             deck |-> sp.left]

\* drawCardsFromDeck(deck, count); the field deck is the array passed in as
\* the call leaves it
DrawCardsFromDeck(d, count, rnd) ==
  IF Len(d) < count
    THEN LET sp == SpliceFront(ShuffleDeck(CreateDeck, rnd), count)
         IN [drawn |-> sp.removed, remaining |-> sp.left, reshuffled |-> TRUE,
             deck |-> d]
    ELSE LET sp == SpliceFront(d, count)
         IN [drawn |-> sp.removed, remaining |-> sp.left, reshuffled |-> FALSE,
             deck |-> d]

\* formatCard(card)
FormatCard(card) == card.value \o " of " \o card.suit

\* ----------------------------------------------------- interrupts, responders
\* Thread mounts GameStatusBar while there is an image and EnvironmentPanel
\* always; both read stream.interrupt.
Responders == {"GameStatusBar", "EnvironmentPanel"}
AutoRequests == {"inventory_state", "region_state", "state_check"}

NoInterrupt == [id |-> 0, type |-> "none", request |-> "none", num |-> 0]

\* the interrupts the backend raises: num is num_dice / num_cards, 0 when absent
InterruptValues ==
  {[type |-> "game_input", request |-> r, num |-> 0] : r \in AutoRequests}
  \cup {[type |-> "game_input", request |-> "dice", num |-> n] : n \in {0, 1}}
  \cup {[type |-> "game_input", request |-> "card", num |-> n] : n \in {0, 2}}
  \cup {[type |-> "approval", request |-> "dice", num |-> 0],
        [type |-> "game_input", request |-> "trade", num |-> 0]}

\* isGameInputInterrupt(interruptValue)
IsGameInputInterrupt(v) ==
  /\ v.type = "game_input"
  /\ (v.request = "dice" \/ v.request = "card" \/ v.request = "inventory_state"
      \/ v.request = "region_state" \/ v.request = "state_check")

\* gameInputRequest is not null
HasGameInputRequest(i) == i.id # 0 /\ IsGameInputInterrupt(i)

\* interruptKey: `${request}-${JSON.stringify(interrupt)}`, <<>> for null
InterruptKey(i) == IF HasGameInputRequest(i) THEN <<i.request, i>> ELSE <<>>

\* showGameInput of either responder
ShowGameInput(i) ==
  /\ HasGameInputRequest(i)
  /\ i.request # "inventory_state"
  /\ i.request # "region_state"
  /\ i.request # "state_check"

\* the responder reaches its return statement with a GameInputPanel in it:
\* GameStatusBar is mounted only with an image, EnvironmentPanel returns null
\* without one
RendersGameInputPanel(i, image) == image /\ ShowGameInput(i)

\* GameInputPanel renders a DiceRoller / a CardDrawer / nothing
RendersDiceRoller(i, image) == RendersGameInputPanel(i, image) /\ i.request = "dice"
RendersCardDrawer(i, image) == RendersGameInputPanel(i, image) /\ i.request = "card"

\* the default parameters numDice = 2, numCards = 1
NumDice(i) == IF i.num = 0 THEN 2 ELSE i.num
NumCards(i) == IF i.num = 0 THEN 1 ELSE i.num

\* the keys of the resume command an automatic answer carries
AutoResume(request) ==
  IF request = "inventory_state" THEN {"inventory", "inventory_capacity"}
  ELSE IF request = "region_state" THEN {"region_action_taken"}
  ELSE {"turns_remaining", "gifts_found"}

\* stream.submit({}, {command: {resume}}) as the log keeps it
Submit(g, r, answer, values, total) ==
  [g EXCEPT !.submits = Append(@, [by |-> r, interrupt |-> g.interrupt.id,
                                   request |-> g.interrupt.request,
                                   answer |-> answer, values |-> values,
                                   total |-> total])]

\* (variant: every game input request is answered automatically)
AutoRespondAnswersAll(g, r) ==
  IF ~HasGameInputRequest(g.interrupt)
     \/ g.handledInterruptRef[r] = InterruptKey(g.interrupt)
    THEN g
    ELSE Submit([g EXCEPT !.handledInterruptRef[r] = InterruptKey(g.interrupt)],
                r, g.interrupt.request, AutoResume(g.interrupt.request), 0)

\* the auto-respond effect of responder r, deps [gameInputRequest, interruptKey, stream]
AutoRespond(g, r) ==
  IF ~HasGameInputRequest(g.interrupt)
     \/ g.handledInterruptRef[r] = InterruptKey(g.interrupt)
    THEN g
    ELSE IF g.interrupt.request \in AutoRequests
           THEN Submit([g EXCEPT !.handledInterruptRef[r] = InterruptKey(g.interrupt)],
                       r, g.interrupt.request, AutoResume(g.interrupt.request), 0)
           ELSE g

\* ------------------------------------------------- DiceRoller, CardDrawer
NoWidget == [instance |-> 0]
NoTimer == [left |-> -1]

RECURSIVE Sum(_)
\* values.reduce((sum, val) => sum + val, 0)
Sum(values) == IF values = <<>> THEN 0 ELSE Head(values) + Sum(Tail(values))

\* Math.floor(Math.random() * 6) + 1
Face(rnd, n) == (rnd[n] * 6) \div RandDen + 1

\* the state of a DiceRoller after its first render; calls lists the
\* invocations of onSubmit, sinceDone the time since the roll completed
NewDiceRoller(inst, n, cb) ==
  [instance |-> inst, numDice |-> n, onSubmit |-> cb, diceValues |-> <<>>,
   isRolling |-> FALSE, hasRolled |-> FALSE, hasSubmitted |-> FALSE,
   finalValues |-> <<>>, interval |-> NoTimer, timer |-> NoTimer,
   calls |-> <<>>, sinceDone |-> -1]

\* (variant: the auto-submit effect does not test hasSubmitted)
DiceSubmitEffectNoGuard(w) ==
  IF w.hasRolled /\ Len(w.finalValues) > 0
    THEN [w EXCEPT !.timer = [left |-> SubmitDelayMs, values |-> w.finalValues,
                              total |-> Sum(w.finalValues), onSubmit |-> w.onSubmit]]
    ELSE [w EXCEPT !.timer = NoTimer]

\* DiceRoller's auto-submit effect, its cleanup first
DiceSubmitEffect(w) ==
  IF w.hasRolled /\ Len(w.finalValues) > 0 /\ ~w.hasSubmitted
    THEN [w EXCEPT !.timer = [left |-> SubmitDelayMs, values |-> w.finalValues,
                              total |-> Sum(w.finalValues), onSubmit |-> w.onSubmit]]
    ELSE [w EXCEPT !.timer = NoTimer]

\* the commit of a DiceRoller render: the effect runs when one of its deps
\* [hasRolled, finalValues, hasSubmitted, onSubmit] changed
DiceCommit(old, new) ==
  IF <<old.hasRolled, old.finalValues, old.hasSubmitted, old.onSubmit>>
     # <<new.hasRolled, new.finalValues, new.hasSubmitted, new.onSubmit>>
    THEN DiceSubmitEffect(new)
    ELSE new

\* rollDice(): rnd is the stream Math.random() draws from during this roll
RollDice(w, rnd) ==
  LET finalRoll == [d \in 1..w.numDice |-> Face(rnd, d)]
  IN DiceCommit(w, [w EXCEPT !.isRolling = TRUE, !.hasRolled = FALSE,
                             !.hasSubmitted = FALSE, !.finalValues = finalRoll,
                             !.interval = [left |-> RollIntervalMs, iterations |-> 0,
                                           finalRoll |-> finalRoll, rnd |-> rnd,
                                           used |-> w.numDice]])

\* the setInterval callback of rollDice
RollIntervalTick(w) ==
  LET i == w.interval
      randomValues == [d \in 1..w.numDice |-> Face(i.rnd, i.used + d)]
      iterations == i.iterations + 1
  IN DiceCommit(w,
       IF iterations >= maxIterations
         THEN [w EXCEPT !.diceValues = i.finalRoll, !.isRolling = FALSE,
                        !.hasRolled = TRUE, !.interval = NoTimer, !.sinceDone = 0]
         ELSE [w EXCEPT !.diceValues = randomValues,
                        !.interval = [i EXCEPT !.left = RollIntervalMs,
                                               !.iterations = iterations,
                                               !.used = @ + w.numDice]])

\* the state of a CardDrawer after its first render
NewCardDrawer(inst, n, cb) ==
  [instance |-> inst, numCards |-> n, onSubmit |-> cb, drawnCards |-> <<>>,
   isDrawing |-> FALSE, hasDrawn |-> FALSE, hasSubmitted |-> FALSE,
   wasReshuffled |-> FALSE, timer |-> NoTimer, calls |-> <<>>, sinceDone |-> -1]

\* CardDrawer's auto-submit effect, its cleanup first
CardSubmitEffect(w) ==
  IF w.hasDrawn /\ Len(w.drawnCards) > 0 /\ ~w.hasSubmitted
    THEN [w EXCEPT !.timer = [left |-> SubmitDelayMs, values |-> w.drawnCards,
                              total |-> 0, onSubmit |-> w.onSubmit]]
    ELSE [w EXCEPT !.timer = NoTimer]

\* the commit of a CardDrawer render, deps [hasDrawn, drawnCards, hasSubmitted, onSubmit]
CardCommit(old, new) ==
  IF <<old.hasDrawn, old.drawnCards, old.hasSubmitted, old.onSubmit>>
     # <<new.hasDrawn, new.drawnCards, new.hasSubmitted, new.onSubmit>>
    THEN CardSubmitEffect(new)
    ELSE new

\* ------------------------------------------------ the game's mutable part
\* The effects and handlers of the game components are functions on this
\* record; an action runs them in React's order and stores the result.
Game == [interrupt |-> interrupt, hasImage |-> hasImage,
         handledInterruptRef |-> handledInterruptRef,
         handlerVersion |-> handlerVersion, submits |-> submits, deck |-> deck,
         savedDeck |-> savedDeck, dealt |-> dealt, lastDraw |-> lastDraw,
         roller |-> roller, drawer |-> drawer, flips |-> flips]

NoDraw == [count |-> -1]

\* an id for a component instance that no mounted widget and no pending
\* timeout refers to
NewInstance(g) ==
  CHOOSE n \in 1..(2 * Cardinality(Responders) + Cardinality(g.flips) + 1) :
    /\ \A r \in Responders : g.roller[r].instance # n /\ g.drawer[r].instance # n
    /\ \A f \in g.flips : f.instance # n
    /\ \A k \in 1..(n - 1) :
         \/ \E r \in Responders : g.roller[r].instance = k \/ g.drawer[r].instance = k
         \/ \E f \in g.flips : f.instance = k

\* responder r renders (or not) its GameInputPanel with the current
\* interrupt and its current handleDiceSubmit / handleCardSubmit: the widget
\* is mounted, re-rendered with the new props, or unmounted with its cleanup
RenderGameInput(g, r) ==
  LET i == g.interrupt
      cb == <<r, g.handlerVersion>>
      oldR == g.roller[r]
      oldD == g.drawer[r]
      newR == IF ~RendersDiceRoller(i, g.hasImage) THEN NoWidget
              ELSE IF oldR.instance = 0 THEN NewDiceRoller(NewInstance(g), NumDice(i), cb)
              ELSE DiceCommit(oldR, [oldR EXCEPT !.onSubmit = cb, !.numDice = NumDice(i)])
      newD == IF ~RendersCardDrawer(i, g.hasImage) THEN NoWidget
              ELSE IF oldD.instance = 0 THEN NewCardDrawer(NewInstance(g), NumCards(i), cb)
              ELSE CardCommit(oldD, [oldD EXCEPT !.onSubmit = cb, !.numCards = NumCards(i)])
  IN [g EXCEPT !.roller[r] = newR, !.drawer[r] = newD]

\* a render of Thread's subtree and its commit: GameStatusBar (mounted while
\* there is an image) before EnvironmentPanel, each one's widget before its
\* own auto-respond effect
RenderThread(g) ==
  LET g1 == RenderGameInput(g, "GameStatusBar")
      g2 == IF g1.hasImage THEN AutoRespond(g1, "GameStatusBar") ELSE g1
      g3 == RenderGameInput(g2, "EnvironmentPanel")
  IN AutoRespond(g3, "EnvironmentPanel")

\* deckContextValue.draw(count) of the render that saw the deck d
Draw(g, d, count, rnd) ==
  LET res == DrawCardsFromDeck(d, count, rnd)
  IN [g EXCEPT !.deck = res.remaining,
               !.savedDeck = <<res.remaining>>,
               !.dealt = IF res.reshuffled THEN res.drawn ELSE @ \o res.drawn,
               !.lastDraw = [deck |-> d, count |-> count, drawn |-> res.drawn,
                             remaining |-> res.remaining,
                             reshuffled |-> res.reshuffled, deckAfter |-> res.deck]]

StoreGame(g) ==
  /\ interrupt' = g.interrupt
  /\ hasImage' = g.hasImage
  /\ handledInterruptRef' = g.handledInterruptRef
  /\ handlerVersion' = g.handlerVersion
  /\ submits' = g.submits
  /\ deck' = g.deck
  /\ savedDeck' = g.savedDeck
  /\ dealt' = g.dealt
  /\ lastDraw' = g.lastDraw
  /\ roller' = g.roller
  /\ drawer' = g.drawer
  /\ flips' = g.flips

\* the game components before anything has happened: no interrupt, no image,
\* and the deck loadDeck() finds saved after the last card was drawn
NoGame ==
  /\ interrupt = NoInterrupt
  /\ nextInterruptId = 1
  /\ hasImage = FALSE
  /\ isLargeScreen = TRUE
  /\ handledInterruptRef = [r \in Responders |-> <<>>]
  /\ handlerVersion = 0
  /\ submits = <<>>
  /\ deck = <<>>
  /\ savedDeck = <<deck>>
  /\ dealt = <<>>
  /\ lastDraw = NoDraw
  /\ roller = [r \in Responders |-> NoWidget]
  /\ drawer = [r \in Responders |-> NoWidget]
  /\ flips = {}

\* ------------------------------------------------- the hook's mutable part
\* The effects and callbacks below are functions on this record; an action
\* runs them in React's order and stores the result.
Hook == [displayedText |-> displayedText, animationRef |-> animationRef,
         lastFrameTimeRef |-> lastFrameTimeRef,
         displayedLengthRef |-> displayedLengthRef, frames |-> frames,
         timeouts |-> timeouts, timeoutCleanup |-> timeoutCleanup]

\* animationRef.current = requestAnimationFrame(animate), animate being the
\* closure over (text, streaming, cps)
RequestFrame(s, text, streaming, cps) ==
  LET h == NewHandle(s.frames) IN
  [s EXCEPT !.animationRef = h,
            !.frames = @ \cup {[id |-> h, targetText |-> text,
                                isStreaming |-> streaming, charsPerSecond |-> cps]}]

\* (variant: the unmount cleanup leaves the requested frame in place)
UnmountCleanupKeepsFrame(s) == s

\* effect 1 cleanup: cancelAnimationFrame(animationRef.current) on unmount
UnmountCleanup(s) ==
  IF s.animationRef # 0
    THEN [s EXCEPT !.frames = {f \in @ : f.id # s.animationRef}]
    ELSE s

\* (variant: the slack added instead of subtracted)
ResetEffectSlackAdded(s, text) ==
  IF Len(text) = 0 \/ Len(text) < s.displayedLengthRef + ResetSlack
    THEN [s EXCEPT !.displayedText = <<>>, !.displayedLengthRef = 0]
    ELSE s

\* (variant: the empty-target test left out)
ResetEffectNoEmptyTest(s, text) ==
  IF Len(text) < s.displayedLengthRef - ResetSlack
    THEN [s EXCEPT !.displayedText = <<>>, !.displayedLengthRef = 0]
    ELSE s

\* (variant: any shrink below the revealed length resets, no slack)
ResetEffectNoSlack(s, text) ==
  IF Len(text) = 0 \/ Len(text) < s.displayedLengthRef
    THEN [s EXCEPT !.displayedText = <<>>, !.displayedLengthRef = 0]
    ELSE s

\* effect 2, deps [targetText]
ResetEffect(s, text) ==
  IF Len(text) = 0 \/ Len(text) < s.displayedLengthRef - ResetSlack
    THEN [s EXCEPT !.displayedText = <<>>, !.displayedLengthRef = 0]
    ELSE s

\* animate(timestamp) as written, for the variants below to start from
AnimateAsWritten(s, f, timestamp) ==
  LET s1 == IF s.lastFrameTimeRef = 0
              THEN [s EXCEPT !.lastFrameTimeRef = timestamp] ELSE s
      elapsed == timestamp - s1.lastFrameTimeRef
      currentDisplayed == s1.displayedLengthRef
      targetLength == Len(f.targetText)
      charsToReveal == CharsToReveal(elapsed, f.charsPerSecond)
      newLength == Min(currentDisplayed + charsToReveal, targetLength)
      s2 == IF charsToReveal > 0
              THEN [s1 EXCEPT !.displayedLengthRef = newLength,
                              !.displayedText = Slice(f.targetText, newLength),
                              !.lastFrameTimeRef = timestamp]
              ELSE s1
  IN IF currentDisplayed >= targetLength
       THEN IF ~f.isStreaming
              THEN [s1 EXCEPT !.animationRef = 0]
              ELSE RequestFrame(s1, f.targetText, f.isStreaming, f.charsPerSecond)
       ELSE RequestFrame(s2, f.targetText, f.isStreaming, f.charsPerSecond)

\* (variant: the first tick after a start only seeds the clock)
AnimateSeedOnly(s, f, timestamp) ==
  IF s.lastFrameTimeRef = 0 /\ s.displayedLengthRef < Len(f.targetText)
    THEN RequestFrame([s EXCEPT !.lastFrameTimeRef = timestamp],
                      f.targetText, f.isStreaming, f.charsPerSecond)
    ELSE AnimateAsWritten(s, f, timestamp)

\* (variant: Math.min(..., targetLength) left out)
AnimateUncapped(s, f, timestamp) ==
  LET r == AnimateAsWritten(s, f, timestamp)
      last == IF s.lastFrameTimeRef = 0 THEN timestamp ELSE s.lastFrameTimeRef
  IN IF s.displayedLengthRef < Len(f.targetText)
       THEN [r EXCEPT !.displayedLengthRef =
                        s.displayedLengthRef
                        + CharsToReveal(timestamp - last, f.charsPerSecond)]
       ELSE r

\* (variant: caught up while streaming, the loop stops instead of polling)
AnimateNoPoll(s, f, timestamp) ==
  LET r == AnimateAsWritten(s, f, timestamp)
  IN IF s.displayedLengthRef >= Len(f.targetText) /\ f.isStreaming
       THEN [r EXCEPT !.frames = s.frames, !.animationRef = 0]
       ELSE r

\* the frame callback: animate(timestamp) of the closure f
Animate(s, f, timestamp) ==
  LET s1 == IF s.lastFrameTimeRef = 0
              THEN [s EXCEPT !.lastFrameTimeRef = timestamp] ELSE s
      elapsed == timestamp - s1.lastFrameTimeRef
      currentDisplayed == s1.displayedLengthRef
      targetLength == Len(f.targetText)
      charsToReveal == CharsToReveal(elapsed, f.charsPerSecond)
      newLength == Min(currentDisplayed + charsToReveal, targetLength)
      s2 == IF charsToReveal > 0
              THEN [s1 EXCEPT !.displayedLengthRef = newLength,
                              !.displayedText = Slice(f.targetText, newLength),
                              !.lastFrameTimeRef = timestamp]
              ELSE s1
  IN IF currentDisplayed >= targetLength
       THEN IF ~f.isStreaming
              THEN [s1 EXCEPT !.animationRef = 0]
              ELSE RequestFrame(s1, f.targetText, f.isStreaming, f.charsPerSecond)
       ELSE RequestFrame(s2, f.targetText, f.isStreaming, f.charsPerSecond)

\* (variant: the test that no frame is requested yet left out)
StartEffectAlwaysStarts(s, text, streaming, en, cps) ==
  IF ~en
    THEN [s EXCEPT !.displayedText = text, !.displayedLengthRef = Len(text)]
    ELSE LET shouldAnimate == s.displayedLengthRef < Len(text) \/ streaming
         IN IF shouldAnimate
              THEN RequestFrame([s EXCEPT !.lastFrameTimeRef = 0], text, streaming, cps)
              ELSE s

\* effect 3, deps [targetText, isStreaming, enabled, animate]
StartEffect(s, text, streaming, en, cps) ==
  IF ~en
    THEN [s EXCEPT !.displayedText = text, !.displayedLengthRef = Len(text)]
    ELSE LET shouldAnimate == s.displayedLengthRef < Len(text) \/ streaming
         IN IF shouldAnimate /\ s.animationRef = 0
              THEN RequestFrame([s EXCEPT !.lastFrameTimeRef = 0], text, streaming, cps)
              ELSE s

\* (variant: the cleanup forgets the timeout without clearing it)
CatchUpCleanupKeepsTimeout(s) == [s EXCEPT !.timeoutCleanup = 0]

\* effect 4 cleanup: clearTimeout(timeout), when the last run armed one
CatchUpCleanup(s) ==
  [s EXCEPT !.timeouts = {t \in @ : t.id # s.timeoutCleanup},
            !.timeoutCleanup = 0]

\* (variant: the timeout is armed whether or not the stream has ended)
CatchUpEffectWhileStreaming(s, text, streaming, t) ==
  IF s.displayedLengthRef < Len(text)
    THEN LET h == NewHandle(s.timeouts) IN
         [s EXCEPT !.timeouts = @ \cup {[id |-> h, fireAt |-> t + CatchUpMs,
                                         targetText |-> text]},
                   !.timeoutCleanup = h]
    ELSE [s EXCEPT !.timeoutCleanup = 0]

\* effect 4, deps [isStreaming, targetText]
CatchUpEffect(s, text, streaming, t) ==
  IF ~streaming /\ s.displayedLengthRef < Len(text)
    THEN LET h == NewHandle(s.timeouts) IN
         [s EXCEPT !.timeouts = @ \cup {[id |-> h, fireAt |-> t + CatchUpMs,
                                         targetText |-> text]},
                   !.timeoutCleanup = h]
    ELSE [s EXCEPT !.timeoutCleanup = 0]

\* the timeout callback of the closure t
ForceComplete(s, t) ==
  IF s.displayedLengthRef < Len(t.targetText)
    THEN [s EXCEPT !.displayedText = t.targetText,
                   !.displayedLengthRef = Len(t.targetText)]
    ELSE s

\* the effects of the first commit, in declaration order
MountEffects(s, text, streaming, en, cps, t) ==
  CatchUpEffect(StartEffect(ResetEffect(s, text), text, streaming, en, cps),
                text, streaming, t)

\* the effects of a commit after the props changed: the cleanups of the
\* effects whose deps changed, then their bodies in declaration order
UpdateEffects(s, text, streaming, en, cps, t) ==
  LET textChanged == text # targetText
      streamingChanged == streaming # isStreaming
      animateChanged == textChanged \/ streamingChanged \/ cps # charsPerSecond
      startChanged == textChanged \/ streamingChanged \/ en # enabled \/ animateChanged
      catchUpChanged == streamingChanged \/ textChanged
      s1 == IF catchUpChanged THEN CatchUpCleanup(s) ELSE s
      s2 == IF textChanged THEN ResetEffect(s1, text) ELSE s1
      s3 == IF startChanged THEN StartEffect(s2, text, streaming, en, cps) ELSE s2
  IN IF catchUpChanged THEN CatchUpEffect(s3, text, streaming, t) ELSE s3

\* a state update made outside of a render re-renders the mounted component
Rerender(s, text, en) ==
  IF mounted /\ s.displayedText # displayedText
    THEN <<Render(text, en, s.displayedText, s.displayedLengthRef)>>
    ELSE <<>>

\* setDisplayedText on a torn-down component is dropped; the refs are plain objects
Store(s) ==
  /\ displayedText' = IF mounted THEN s.displayedText ELSE displayedText
  /\ animationRef' = s.animationRef
  /\ lastFrameTimeRef' = s.lastFrameTimeRef
  /\ displayedLengthRef' = s.displayedLengthRef
  /\ frames' = s.frames
  /\ timeouts' = s.timeouts
  /\ timeoutCleanup' = s.timeoutCleanup

\* --------------------------------------------------------------------- Init
Unmounted == [displayedText |-> <<>>, animationRef |-> 0, lastFrameTimeRef |-> 0,
              displayedLengthRef |-> 0, frames |-> {}, timeouts |-> {},
              timeoutCleanup |-> 0]

NoSparkles ==
  /\ sparkles = <<>>
  /\ nextSparkleId = 1
  /\ revealing = FALSE
  /\ clearPending = FALSE

Init ==
  /\ NoSparkles
  /\ NoGame
  /\ targetText \in Texts
  /\ isStreaming \in BOOLEAN
  /\ enabled \in BOOLEAN
  /\ charsPerSecond \in Rates
  /\ mounted = TRUE
  /\ now = 0
  /\ streamingEndedAt = IF isStreaming THEN -1 ELSE 0
  /\ LET s == MountEffects(Unmounted, targetText, isStreaming, enabled, charsPerSecond, 0)
     IN /\ displayedText = s.displayedText
        /\ animationRef = s.animationRef
        /\ lastFrameTimeRef = s.lastFrameTimeRef
        /\ displayedLengthRef = s.displayedLengthRef
        /\ frames = s.frames
        /\ timeouts = s.timeouts
        /\ timeoutCleanup = s.timeoutCleanup
        /\ renders = <<Render(targetText, enabled, <<>>, 0)>>
                     \o (IF s.displayedText # <<>>
                           THEN <<Render(targetText, enabled, s.displayedText,
                                         s.displayedLengthRef)>>
                           ELSE <<>>)

\* ------------------------------------------------------------------ actions
\* the collaborator re-renders the hook with new inputs
Update(text, streaming, en, cps) ==
  /\ mounted
  /\ <<text, streaming, en, cps>> # <<targetText, isStreaming, enabled, charsPerSecond>>
  /\ LET s == UpdateEffects(Hook, text, streaming, en, cps, now)
     IN /\ Store(s)
        /\ renders' = <<Render(text, en, displayedText, displayedLengthRef)>>
                      \o Rerender(s, text, en)
  /\ targetText' = text
  /\ isStreaming' = streaming
  /\ enabled' = en
  /\ charsPerSecond' = cps
  /\ streamingEndedAt' = IF streaming THEN -1
                          ELSE IF isStreaming THEN now ELSE streamingEndedAt
  /\ UNCHANGED <<mounted, now>>
  /\ UNCHANGED sparkleVars
  /\ UNCHANGED gameVars

\* timeouts fire when they are due: the clock does not pass a pending one
NoTimeoutBefore(t) == \A x \in timeouts : x.fireAt >= t

NextInstant == IF NoTimeoutBefore(now + FrameMs) THEN now + FrameMs
               ELSE CHOOSE t \in {x.fireAt : x \in timeouts} :
                      \A x \in timeouts : x.fireAt >= t

\* the next frame: the browser runs a pending frame callback
RunFrame(f) ==
  /\ now + FrameMs <= MaxTime
  /\ NoTimeoutBefore(now + FrameMs)
  /\ LET s == Animate([Hook EXCEPT !.frames = @ \ {f}], f, now + FrameMs)
     IN /\ Store(s)
        /\ renders' = Rerender(s, targetText, enabled)
  /\ now' = now + FrameMs
  /\ UNCHANGED <<targetText, isStreaming, enabled, charsPerSecond, mounted,
                 streamingEndedAt>>
  /\ UNCHANGED sparkleVars
  /\ UNCHANGED gameVars

Tick == \E f \in frames : RunFrame(f)

\* a timeout that is due fires
TimeoutFire ==
  /\ \E t \in timeouts :
       /\ t.fireAt <= now
       /\ LET s == ForceComplete([Hook EXCEPT !.timeouts = @ \ {t}], t)
          IN /\ Store(s)
             /\ renders' = Rerender(s, targetText, enabled)
  /\ UNCHANGED <<targetText, isStreaming, enabled, charsPerSecond, mounted, now,
                 streamingEndedAt>>
  /\ UNCHANGED sparkleVars
  /\ UNCHANGED gameVars

\* time passes without a frame being run
Advance ==
  /\ NextInstant > now
  /\ NextInstant <= MaxTime
  /\ now' = NextInstant
  /\ renders' = <<>>
  /\ UNCHANGED <<targetText, isStreaming, enabled, charsPerSecond, displayedText,
                 animationRef, lastFrameTimeRef, displayedLengthRef, frames,
                 timeouts, timeoutCleanup, mounted, streamingEndedAt>>
  /\ UNCHANGED sparkleVars
  /\ UNCHANGED gameVars

\* teardown: React runs the cleanup of every effect
Unmount ==
  /\ mounted
  /\ Store(CatchUpCleanup(UnmountCleanup(Hook)))
  /\ mounted' = FALSE
  /\ renders' = <<>>
  /\ UNCHANGED <<targetText, isStreaming, enabled, charsPerSecond, now,
                 streamingEndedAt>>
  /\ UNCHANGED sparkleVars
  /\ UNCHANGED gameVars

\* the inputs the collaborator supplies; the rate option stays as configured
Supply == \E text \in Texts, streaming \in BOOLEAN, en \in BOOLEAN :
            Update(text, streaming, en, charsPerSecond)

Next ==
  \/ Supply
  \/ Tick
  \/ TimeoutFire
  \/ Advance
  \/ Unmount

Spec == Init /\ [][Next]_vars

\* The same instance fed by a collaborator that only ever appends to targetText.
IsPrefix(a, b) == Len(a) <= Len(b) /\ SubSeq(b, 1, Len(a)) = a

SupplyGrowing == \E text \in Texts, streaming \in BOOLEAN, en \in BOOLEAN :
                   /\ IsPrefix(targetText, text)
                   /\ Update(text, streaming, en, charsPerSecond)

NextGrowing ==
  \/ SupplyGrowing
  \/ Tick
  \/ TimeoutFire
  \/ Advance
  \/ Unmount

SpecGrowing == Init /\ [][NextGrowing]_vars

\* A long text that is complete from the start, revealed at one unit per
\* second, with frames delivered at a cadence of FastFrameMs.
InitDrain ==
  /\ NoSparkles
  /\ NoGame
  /\ targetText \in {SubSeq(m, 1, n) : m \in {MsgA, MsgB}, n \in {MaxLen - 1, MaxLen}}
  /\ isStreaming = FALSE
  /\ enabled = TRUE
  /\ charsPerSecond = 1
  /\ mounted = TRUE
  /\ now = 0
  /\ streamingEndedAt = 0
  /\ LET s == MountEffects(Unmounted, targetText, isStreaming, enabled, charsPerSecond, 0)
     IN /\ displayedText = s.displayedText
        /\ animationRef = s.animationRef
        /\ lastFrameTimeRef = s.lastFrameTimeRef
        /\ displayedLengthRef = s.displayedLengthRef
        /\ frames = s.frames
        /\ timeouts = s.timeouts
        /\ timeoutCleanup = s.timeoutCleanup
        /\ renders = <<Render(targetText, enabled, <<>>, 0)>>

RunFastFrame(f) ==
  /\ now + FastFrameMs <= MaxTime
  /\ NoTimeoutBefore(now + FastFrameMs)
  /\ LET s == Animate([Hook EXCEPT !.frames = @ \ {f}], f, now + FastFrameMs)
     IN /\ Store(s)
        /\ renders' = Rerender(s, targetText, enabled)
  /\ now' = now + FastFrameMs
  /\ UNCHANGED <<targetText, isStreaming, enabled, charsPerSecond, mounted,
                 streamingEndedAt>>
  /\ UNCHANGED sparkleVars
  /\ UNCHANGED gameVars

FastTick == \E f \in frames : RunFastFrame(f)

NextDrain ==
  \/ FastTick
  \/ Advance
  \/ TimeoutFire

SpecDrain == InitDrain /\ [][NextDrain]_vars

\* ---------------------------------------------------------- particle emitter
\* The emitter is not part of the hook above; it is described in the design
\* only: while revealing, one particle is spawned per interval, the live ones
\* are capped at the configured maximum with the oldest evicted first, each
\* particle removes itself when its lifetime is over, and the rest are cleared
\* after a grace delay once revealing stops.

\* (variant: on overflow the newest particle is dropped instead of the oldest)
CapOldestKept(list) ==
  IF Len(list) > MaxSparkles THEN SubSeq(list, 1, MaxSparkles) ELSE list

\* keep the newest MaxSparkles particles
CapOldestEvicted(list) ==
  IF Len(list) > MaxSparkles
    THEN SubSeq(list, Len(list) - MaxSparkles + 1, Len(list))
    ELSE list

StartRevealing ==
  /\ ~revealing
  /\ revealing' = TRUE
  /\ clearPending' = FALSE
  /\ UNCHANGED <<sparkles, nextSparkleId>>
  /\ UNCHANGED hookVars
  /\ UNCHANGED gameVars

StopRevealing ==
  /\ revealing
  /\ revealing' = FALSE
  /\ clearPending' = TRUE
  /\ UNCHANGED <<sparkles, nextSparkleId>>
  /\ UNCHANGED hookVars
  /\ UNCHANGED gameVars

\* the spawn timer fires; the style tag is the emitter's random choice
SpawnSparkle ==
  /\ revealing
  /\ nextSparkleId <= MaxSpawns
  /\ \E tag \in BOOLEAN :
       sparkles' = CapOldestEvicted(Append(sparkles, [id |-> nextSparkleId,
                                                       styleTag |-> tag]))
  /\ nextSparkleId' = nextSparkleId + 1
  /\ UNCHANGED <<revealing, clearPending>>
  /\ UNCHANGED hookVars
  /\ UNCHANGED gameVars

\* the removal timer of a live particle fires
ExpireSparkle ==
  /\ \E i \in DOMAIN sparkles :
       sparkles' = SubSeq(sparkles, 1, i - 1) \o SubSeq(sparkles, i + 1, Len(sparkles))
  /\ UNCHANGED <<nextSparkleId, revealing, clearPending>>
  /\ UNCHANGED hookVars
  /\ UNCHANGED gameVars

\* the grace delay after revealing stopped is over
ClearSparkles ==
  /\ clearPending
  /\ sparkles' = <<>>
  /\ clearPending' = FALSE
  /\ UNCHANGED <<nextSparkleId, revealing>>
  /\ UNCHANGED hookVars
  /\ UNCHANGED gameVars

NextSparkles ==
  \/ StartRevealing
  \/ StopRevealing
  \/ SpawnSparkle
  \/ ExpireSparkle
  \/ ClearSparkles

InitSparkles ==
  /\ Init
  /\ targetText = <<>> /\ ~isStreaming /\ enabled /\ charsPerSecond = 150

SpecSparkles == InitSparkles /\ [][NextSparkles]_vars

\* ------------------------------------------------------- game input: actions
\* the responder the style sheet displays: the side panel on a large screen,
\* the status bar otherwise
Displayed(r) == IF isLargeScreen THEN r = "EnvironmentPanel" ELSE r = "GameStatusBar"

\* the pending timers of the game components, as the time left on each
RollInterval(r) == IF roller[r].instance = 0 THEN NoTimer ELSE roller[r].interval
RollTimer(r) == IF roller[r].instance = 0 THEN NoTimer ELSE roller[r].timer
DrawTimer(r) == IF drawer[r].instance = 0 THEN NoTimer ELSE drawer[r].timer

PendingLefts ==
  {t.left : t \in {RollInterval(r) : r \in Responders}
                  \cup {RollTimer(r) : r \in Responders}
                  \cup {DrawTimer(r) : r \in Responders}
                  \cup flips} \ {-1}

\* the backend interrupts the run
InterruptArrives ==
  /\ interrupt = NoInterrupt
  /\ nextInterruptId <= MaxInterrupts
  /\ \E v \in InterruptValues :
       StoreGame(RenderThread([Game EXCEPT !.submits = <<>>, !.lastDraw = NoDraw,
                                          !.interrupt =
                   [id |-> nextInterruptId, type |-> v.type,
                    request |-> v.request, num |-> v.num]]))
  /\ nextInterruptId' = nextInterruptId + 1
  /\ UNCHANGED isLargeScreen
  /\ UNCHANGED hookVars
  /\ UNCHANGED sparkleVars

\* the run a resume command started goes on (or an interrupt that is no game
\* input was dealt with elsewhere): stream.interrupt is cleared
StreamResumes ==
  /\ interrupt # NoInterrupt
  /\ \/ ~IsGameInputInterrupt(interrupt)
     \/ \E k \in DOMAIN submits : submits[k].interrupt = interrupt.id
  /\ StoreGame(RenderThread([Game EXCEPT !.interrupt = NoInterrupt]))
  /\ UNCHANGED <<nextInterruptId, isLargeScreen>>
  /\ UNCHANGED hookVars
  /\ UNCHANGED sparkleVars

\* the first image arrives: Thread mounts GameStatusBar
ImageArrives ==
  /\ ~hasImage
  /\ StoreGame(RenderThread([Game EXCEPT !.hasImage = TRUE]))
  /\ UNCHANGED <<nextInterruptId, isLargeScreen>>
  /\ UNCHANGED hookVars
  /\ UNCHANGED sparkleVars

\* the messages no longer hold an image (between runs): GameStatusBar is
\* unmounted and its ref is gone with it
ImageGone ==
  /\ hasImage
  /\ interrupt = NoInterrupt
  /\ StoreGame(RenderThread([Game EXCEPT !.hasImage = FALSE,
                                         !.handledInterruptRef["GameStatusBar"] = <<>>]))
  /\ UNCHANGED <<nextInterruptId, isLargeScreen>>
  /\ UNCHANGED hookVars
  /\ UNCHANGED sparkleVars

\* Thread and its subtree re-render (a stream update, a key typed into the
\* input box); fresh: the responders' useCallback deps changed, they pass
\* new handleDiceSubmit / handleCardSubmit functions down (which is noted
\* while there is a widget to pass them to)
ParentRerender ==
  /\ \E fresh \in BOOLEAN :
       /\ fresh => \E r \in Responders : roller[r].instance # 0 \/ drawer[r].instance # 0
       /\ StoreGame(RenderThread([Game EXCEPT !.handlerVersion =
                                 IF fresh THEN (@ + 1) % HandlerIds ELSE @]))
  /\ UNCHANGED <<nextInterruptId, isLargeScreen>>
  /\ UNCHANGED hookVars
  /\ UNCHANGED sparkleVars

\* the window crosses the large-screen width (not during the moments a roll
\* and its submission take)
Resize ==
  /\ \A r \in Responders : RollInterval(r).left < 0 /\ RollTimer(r).left < 0
  /\ isLargeScreen' = ~isLargeScreen
  /\ UNCHANGED <<interrupt, nextInterruptId, hasImage, handledInterruptRef,
                 handlerVersion, submits, deck, savedDeck, dealt, lastDraw, roller,
                 drawer, flips>>
  /\ UNCHANGED hookVars
  /\ UNCHANGED sparkleVars

\* the user clicks "Roll Dice": shown while ~hasRolled, disabled while isRolling
ClickRoll(r) ==
  /\ Displayed(r)
  /\ roller[r].instance # 0
  /\ ~roller[r].hasRolled
  /\ ~roller[r].isRolling
  /\ \E rnd \in RandomStreams :
       StoreGame([Game EXCEPT !.roller[r] = RollDice(@, rnd)])
  /\ UNCHANGED <<nextInterruptId, isLargeScreen>>
  /\ UNCHANGED hookVars
  /\ UNCHANGED sparkleVars

\* the interval of a roll is due
RollIntervalFire(r) ==
  /\ RollInterval(r).left = 0
  /\ StoreGame([Game EXCEPT !.roller[r] = RollIntervalTick(@)])
  /\ UNCHANGED <<nextInterruptId, isLargeScreen>>
  /\ UNCHANGED hookVars
  /\ UNCHANGED sparkleVars

\* the auto-submit timeout of a DiceRoller is due: setHasSubmitted(true),
\* onSubmit(finalValues, total), which is the handleDiceSubmit it was given
RollSubmitFire(r) ==
  /\ RollTimer(r).left = 0
  /\ LET w == roller[r]
         t == w.timer
         w1 == [w EXCEPT !.hasSubmitted = TRUE,
                         !.calls = Append(@, [values |-> t.values, total |-> t.total])]
     IN StoreGame([Submit(Game, t.onSubmit[1], "dice", t.values, t.total)
                     EXCEPT !.roller[r] = DiceCommit(w, w1)])
  /\ UNCHANGED <<nextInterruptId, isLargeScreen>>
  /\ UNCHANGED hookVars
  /\ UNCHANGED sparkleVars

\* the user clicks "Draw Card": drawCards() sets the flip timeout, whose
\* callback holds the draw of the render that made it
ClickDraw(r) ==
  /\ Displayed(r)
  /\ drawer[r].instance # 0
  /\ ~drawer[r].hasDrawn
  /\ ~drawer[r].isDrawing
  /\ LET w == drawer[r]
     IN StoreGame([Game EXCEPT
          !.drawer[r] = CardCommit(w, [w EXCEPT !.isDrawing = TRUE, !.hasDrawn = FALSE,
                                                !.hasSubmitted = FALSE,
                                                !.wasReshuffled = FALSE]),
          !.flips = @ \cup {[left |-> FlipDelayMs, instance |-> w.instance,
                             responder |-> r, deck |-> deck,
                             numCards |-> w.numCards]}])
  /\ UNCHANGED <<nextInterruptId, isLargeScreen>>
  /\ UNCHANGED hookVars
  /\ UNCHANGED sparkleVars

\* a flip timeout is due: the cards are drawn, and shown if the CardDrawer
\* that set the timeout is still mounted; Thread re-renders with the new deck
FlipFire ==
  /\ \E f \in flips, rnd \in RandomStreams :
       /\ f.left = 0
       /\ LET g == Draw([Game EXCEPT !.flips = @ \ {f}], f.deck, f.numCards, rnd)
              w == drawer[f.responder]
              w1 == [w EXCEPT !.drawnCards = [k \in DOMAIN g.lastDraw.drawn |->
                                                FormatCard(g.lastDraw.drawn[k])],
                              !.wasReshuffled = g.lastDraw.reshuffled,
                              !.isDrawing = FALSE, !.hasDrawn = TRUE,
                              !.sinceDone = 0]
          IN StoreGame(RenderThread(
               IF w.instance = f.instance
                 THEN [g EXCEPT !.drawer[f.responder] = CardCommit(w, w1)]
                 ELSE g))
  /\ UNCHANGED <<nextInterruptId, isLargeScreen>>
  /\ UNCHANGED hookVars
  /\ UNCHANGED sparkleVars

\* the auto-submit timeout of a CardDrawer is due
DrawSubmitFire(r) ==
  /\ DrawTimer(r).left = 0
  /\ LET w == drawer[r]
         t == w.timer
         w1 == [w EXCEPT !.hasSubmitted = TRUE,
                         !.calls = Append(@, [values |-> t.values, total |-> t.total])]
     IN StoreGame([Submit(Game, t.onSubmit[1], "card", t.values, t.total)
                     EXCEPT !.drawer[r] = CardCommit(w, w1)])
  /\ UNCHANGED <<nextInterruptId, isLargeScreen>>
  /\ UNCHANGED hookVars
  /\ UNCHANGED sparkleVars

\* dt ms pass: no timer is overrun
Elapse(t, dt) == IF t.left < 0 THEN t ELSE [t EXCEPT !.left = @ - dt]

Waited(w, dt) == IF w.sinceDone < 0 THEN w
                 ELSE [w EXCEPT !.sinceDone = Min(@ + dt, MaxWaitMs)]

PassTime(dt) ==
  /\ dt > 0
  /\ PendingLefts # {}
  /\ \A l \in PendingLefts : dt <= l
  /\ roller' = [r \in Responders |->
                  IF roller[r].instance = 0 THEN roller[r]
                  ELSE Waited([roller[r] EXCEPT !.interval = Elapse(@, dt),
                                                !.timer = Elapse(@, dt)], dt)]
  /\ drawer' = [r \in Responders |->
                  IF drawer[r].instance = 0 THEN drawer[r]
                  ELSE Waited([drawer[r] EXCEPT !.timer = Elapse(@, dt)], dt)]
  /\ flips' = {Elapse(f, dt) : f \in flips}
  /\ UNCHANGED <<interrupt, nextInterruptId, hasImage, isLargeScreen,
                 handledInterruptRef, handlerVersion, submits, deck, savedDeck,
                 dealt, lastDraw>>
  /\ UNCHANGED hookVars
  /\ UNCHANGED sparkleVars

\* time passes to the next timer, or by the time a user takes to act
AdvanceGame == \E dt \in PendingLefts \cup {UserStepMs} : PassTime(dt)

NextGame ==
  \/ InterruptArrives
  \/ StreamResumes
  \/ ImageArrives
  \/ ImageGone
  \/ ParentRerender
  \/ Resize
  \/ \E r \in Responders : ClickRoll(r)
  \/ \E r \in Responders : RollIntervalFire(r)
  \/ \E r \in Responders : RollSubmitFire(r)
  \/ \E r \in Responders : ClickDraw(r)
  \/ FlipFire
  \/ \E r \in Responders : DrawSubmitFire(r)
  \/ AdvanceGame

\* the hook at rest beside the game: an empty text, enabled, not streaming
HookAtRest ==
  /\ targetText = <<>> /\ isStreaming = FALSE /\ enabled = TRUE
  /\ charsPerSecond = 150 /\ mounted = TRUE /\ now = 0 /\ streamingEndedAt = 0
  /\ displayedText = <<>> /\ animationRef = 0 /\ lastFrameTimeRef = 0
  /\ displayedLengthRef = 0 /\ frames = {} /\ timeouts = {} /\ timeoutCleanup = 0
  /\ renders = <<Render(<<>>, TRUE, <<>>, 0)>>

\* loadDeck(): the deck saved by an earlier session, which is what was left
\* of a shuffled deck, or a freshly shuffled one when nothing is saved
InitGame ==
  /\ HookAtRest
  /\ NoSparkles
  /\ interrupt = NoInterrupt
  /\ nextInterruptId = 1
  /\ hasImage = FALSE
  /\ isLargeScreen = TRUE
  /\ handledInterruptRef = [r \in Responders |-> <<>>]
  /\ handlerVersion = 0
  /\ submits = <<>>
  /\ \E rnd \in InitStreams :
       LET fresh == ShuffleDeck(CreateDeck, rnd)
       IN \/ deck = fresh /\ savedDeck = <<>>
          \/ \E n \in SavedDeckLens :
               /\ deck = SubSeq(fresh, Len(fresh) - n + 1, Len(fresh))
               /\ savedDeck = <<deck>>
  /\ dealt = <<>>
  /\ lastDraw = NoDraw
  /\ roller = [r \in Responders |-> NoWidget]
  /\ drawer = [r \in Responders |-> NoWidget]
  /\ flips = {}

SpecGame == InitGame /\ [][NextGame]_vars

\* The deck alone: a consumer of DeckContext calls draw of the context value
\* of the last render, and Thread re-renders with what is left.
DrawCall ==
  /\ \E count \in DrawCounts, rnd \in RandomStreams :
       StoreGame(Draw(Game, deck, count, rnd))
  /\ UNCHANGED <<nextInterruptId, isLargeScreen>>
  /\ UNCHANGED hookVars
  /\ UNCHANGED sparkleVars

\* any part of a shuffled deck may have been saved by an earlier session
InitDeck ==
  /\ HookAtRest
  /\ NoSparkles
  /\ interrupt = NoInterrupt
  /\ nextInterruptId = 1
  /\ hasImage = FALSE
  /\ isLargeScreen = TRUE
  /\ handledInterruptRef = [r \in Responders |-> <<>>]
  /\ handlerVersion = 0
  /\ submits = <<>>
  /\ \E rnd \in RandomStreams :
       LET fresh == ShuffleDeck(CreateDeck, rnd)
       IN \/ deck = fresh /\ savedDeck = <<>>
          \/ \E n \in 0..2 :
               /\ deck = SubSeq(fresh, Len(fresh) - n + 1, Len(fresh))
               /\ savedDeck = <<deck>>
  /\ dealt = <<>>
  /\ lastDraw = NoDraw
  /\ roller = [r \in Responders |-> NoWidget]
  /\ drawer = [r \in Responders |-> NoWidget]
  /\ flips = {}

NextDeck == DrawCall

SpecDeck == InitDeck /\ [][NextDeck]_vars

\* ------------------------------------------------------------- properties

\* C1: in every reachable state of a mounted instance the revealed length is
\* between 0 and the length of the current targetText.
C1_RevealedWithinTarget ==
  mounted => (0 <= displayedLengthRef /\ displayedLengthRef <= Len(targetText))

\* C2: displayedText is the prefix of the current targetText of length
\* revealedLength, never text of an earlier targetText.
C2_DisplayedIsPrefixOfTarget ==
  mounted => displayedText = Slice(targetText, displayedLengthRef)

\* C3: 2000 ms after isStreaming became false (every timeout due by then
\* having fired) the revealed length equals the length of targetText.
C3_CompleteWithinCatchUp ==
  (/\ mounted
   /\ ~isStreaming
   /\ now >= streamingEndedAt + CatchUpMs
   /\ \A t \in timeouts : t.fireAt > now)
  => displayedLengthRef = Len(targetText)

\* C4: while streaming, with the displayed text a proper prefix of a
\* targetText that has grown past it, every tick that runs reveals more of it.
C4_TickRevealsGrowth ==
  [][(/\ mounted /\ enabled /\ isStreaming
      /\ displayedLengthRef < Len(targetText)
      /\ displayedText = Slice(targetText, displayedLengthRef)
      /\ Tick)
     => displayedLengthRef' > displayedLengthRef]_vars

\* C5: fed by a collaborator that only appends to targetText, the revealed
\* length never decreases in a step during which isStreaming is true.
C5_MonotoneWhileGrowing ==
  [][(isStreaming /\ isStreaming') => displayedLengthRef' >= displayedLengthRef]_vars

\* the loop has caught up with the text it was started on, the target has
\* grown past it since, and the stream is still on
C5_Witness ==
  /\ mounted /\ enabled /\ isStreaming
  /\ displayedLengthRef > 0
  /\ displayedLengthRef < Len(targetText)
  /\ \E f \in frames : Len(f.targetText) = displayedLengthRef

\* C6: an update from a non-empty targetText to an empty one leaves the
\* revealed length 0 and the displayed text empty.
C6_EmptyTargetResets ==
  [][(mounted /\ Len(targetText) > 0 /\ Len(targetText') = 0)
     => (/\ displayedLengthRef' = 0
         /\ displayedText' = <<>>
         /\ renders'[Len(renders')].displayedText = <<>>)]_vars

\* the update to the empty target found text on display and cleared it
C6_Witness ==
  /\ mounted
  /\ Len(targetText) = 0
  /\ Len(renders) = 2
  /\ renders[1].displayedText # <<>>
  /\ renders[2].displayedText = <<>>
  /\ displayedLengthRef = 0

\* C7: every render with enabled = false returns the targetText it was
\* rendered with as displayedText.
C7_DisabledShowsTarget ==
  \A i \in DOMAIN renders :
    ~renders[i].enabled => renders[i].displayedText = renders[i].targetText

\* C8: after teardown no frame callback and no timeout is pending, and the
\* revealed length and the displayed text never change again.
C8_NothingRunsAfterTeardown ==
  /\ [](~mounted => (frames = {} /\ timeouts = {}))
  /\ [][~mounted => (/\ displayedLengthRef' = displayedLengthRef
                     /\ displayedText' = displayedText)]_vars

\* torn down with a frame requested and a backlog left after the stream
\* ended, and the catch-up delay has passed since
C8_Witness ==
  /\ ~mounted
  /\ animationRef # 0
  /\ ~isStreaming
  /\ displayedLengthRef < Len(targetText)
  /\ now >= streamingEndedAt + CatchUpMs

\* C9: the progress every render returns lies in [0,1], and is 1 when the
\* targetText is empty.
C9_ProgressInUnitInterval ==
  \A i \in DOMAIN renders :
    LET p == renders[i].progress
    IN /\ 0 <= p[1]
       /\ p[1] <= p[2]
       /\ (Len(renders[i].targetText) = 0 => p[1] = p[2])

C11_SparklesCapped ==
  /\ [](Len(sparkles) <= MaxSparkles)
  /\ [][(nextSparkleId' # nextSparkleId /\ Len(sparkles) = MaxSparkles /\ MaxSparkles > 0)
        => (/\ Len(sparkles') = MaxSparkles
            /\ SubSeq(sparkles', 1, MaxSparkles - 1) = Tail(sparkles)
            /\ sparkles'[MaxSparkles].id = nextSparkleId)]_vars

\* more particles were spawned than may live, and the live ones are the newest
C11_Witness ==
  /\ Len(sparkles) = MaxSparkles
  /\ nextSparkleId > MaxSparkles + 2
  /\ sparkles[1].id = nextSparkleId - MaxSparkles

C14_TicksRevealAtConfiguredRate ==
  (mounted /\ timeouts # {})
  => displayedLengthRef <= (now * charsPerSecond) \div 1000 + 1

\* C14 as the code has it: each tick that follows the previous frame at the
\* cadence reveals minCharsPerFrame, one unit per frame; whatever is hidden
\* when the deadline fires is revealed then.
C14_TicksRevealOnePerFrame ==
  /\ [][\A f \in frames :
          (/\ RunFastFrame(f)
           /\ displayedLengthRef < Len(f.targetText)
           /\ (lastFrameTimeRef = 0 \/ lastFrameTimeRef = now))
          => displayedLengthRef' = displayedLengthRef + minCharsPerFrame]_vars
  /\ []((mounted /\ now >= streamingEndedAt + CatchUpMs
                 /\ \A t \in timeouts : t.fireAt > now)
        => displayedLengthRef = Len(targetText))

\* the ticks alone have revealed the whole text before the deadline
C14_Witness ==
  /\ mounted
  /\ charsPerSecond = 1
  /\ now < streamingEndedAt + CatchUpMs
  /\ timeouts # {}
  /\ Len(targetText) = MaxLen
  /\ displayedLengthRef = Len(targetText)

\* C15: once isStreaming is false and the text is fully revealed, a tick that
\* runs schedules no further tick: no frame callback remains pending.
C15_LoopStopsWhenDone ==
  [][(/\ mounted /\ enabled /\ ~isStreaming
      /\ displayedLengthRef >= Len(targetText)
      /\ Tick)
     => frames' = {}]_vars

C17_DisabledSchedulesNothing ==
  (mounted /\ ~enabled) => frames = {}

\* C18: at most one frame callback is pending, and it is the one animationRef
\* names, so that no second loop is started beside it.
C18_OneFramePending ==
  /\ Cardinality(frames) <= 1
  /\ \A f \in frames : f.id = animationRef

\* inputs that call for animation arrived while a loop started on other
\* inputs was still scheduled
C18_Witness ==
  /\ mounted /\ enabled
  /\ displayedLengthRef < Len(targetText)
  /\ Cardinality(frames) = 1
  /\ \E f \in frames : f.targetText # targetText

C20_DeadlineArmedOnDraining ==
  /\ [][(mounted /\ (targetText' # targetText \/ isStreaming' # isStreaming))
        => ((\E t \in timeouts' : /\ t.id = timeoutCleanup'
                                  /\ t.fireAt = now' + CatchUpMs
                                  /\ t.targetText = targetText')
            <=> (~isStreaming' /\ displayedLengthRef' < Len(targetText')))]_vars
  /\ [](timeouts # {} => ~isStreaming)
  /\ []((mounted /\ ~isStreaming /\ displayedLengthRef < Len(targetText))
        => timeouts # {})

\* the stream ended after time had passed, with text still hidden, and the
\* timeout runs from that moment
C20_Witness ==
  /\ mounted /\ enabled /\ ~isStreaming
  /\ streamingEndedAt > 0
  /\ displayedLengthRef < Len(targetText)
  /\ \E t \in timeouts : t.fireAt = streamingEndedAt + CatchUpMs

\* C21: every tick computes against the inputs supplied last: it does what
\* animate would do with the current targetText and isStreaming (compares the
\* revealed length with the current length, slices the current text, stops or
\* polls on the current isStreaming), also when the loop was started earlier.
C21_TicksUseLatestInputs ==
  [][\A f \in frames :
       (mounted /\ RunFrame(f))
       => LET latest == [f EXCEPT !.targetText = targetText,
                                  !.isStreaming = isStreaming]
              r == AnimateAsWritten([Hook EXCEPT !.frames = @ \ {f}], latest, now')
          IN /\ displayedLengthRef' = r.displayedLengthRef
             /\ displayedText' = r.displayedText
             /\ (frames' = {}) <=> (r.frames = {})]_vars

\* C22: on a mounted, enabled instance with the revealed length below the
\* length of targetText, a frame callback or the catch-up timeout is pending.
C22_AnimatingHasScheduledWork ==
  (mounted /\ enabled /\ displayedLengthRef < Len(targetText))
  => (frames # {} \/ timeouts # {})

\* C23: at most one catch-up timeout is pending, it is the one the effect's
\* cleanup will clear and it holds the current targetText; a timeout that
\* fires leaves the revealed length alone or sets it to the length of the
\* targetText current at that time, showing that text.
C23_OneCatchUpTimeout ==
  /\ [](/\ Cardinality(timeouts) <= 1
        /\ \A t \in timeouts : t.id = timeoutCleanup /\ t.targetText = targetText)
  /\ [][TimeoutFire
        => \/ (displayedLengthRef' = displayedLengthRef /\ displayedText' = displayedText)
           \/ (displayedLengthRef' = Len(targetText) /\ displayedText' = targetText)]_vars

\* the timeout armed at mount was replaced when the text changed, and the
\* replacement has fired and revealed the text the ticks had barely begun
C23_Witness ==
  /\ mounted /\ enabled /\ ~isStreaming
  /\ charsPerSecond <= 0
  /\ streamingEndedAt = 0
  /\ now > CatchUpMs
  /\ timeouts = {}
  /\ Len(targetText) = MaxLen
  /\ displayedLengthRef = MaxLen
  /\ Len(renders) = 1 /\ renders[1].displayedText = targetText

\* C24: for each auto-answerable interrupt the resume command is submitted at
\* most once, over all re-renders and both responders: no two automatic
\* answers in the log belong to the same interrupt.
C24_AutoResumeAtMostOnce ==
  \A a, b \in DOMAIN submits :
    (/\ submits[a].answer \in AutoRequests
     /\ submits[b].answer \in AutoRequests
     /\ submits[a].interrupt = submits[b].interrupt)
    => a = b

\* a widget of the GameInputPanel is mounted in responder r
PanelMounted(r) == roller[r].instance # 0 \/ drawer[r].instance # 0

\* every resume submitted is the automatic answer to a request of the three
\* automatic kinds, or comes from a DiceRoller / CardDrawer whose roll / draw
\* has completed, for a dice / card request
OnlyAutoRequestsAnswered ==
  \A k \in DOMAIN submits :
    LET c == submits[k]
    IN /\ c.answer \in AutoRequests <=> c.request \in AutoRequests
       /\ c.answer \in AutoRequests => c.answer = c.request
       /\ c.answer = "dice"
            => /\ c.request = "dice"
               /\ interrupt.id = c.interrupt
                    => \E r \in Responders :
                         /\ roller[r].instance # 0
                         /\ roller[r].hasRolled /\ ~roller[r].isRolling
                         /\ roller[r].finalValues = c.values
       /\ c.answer = "card"
            => /\ c.request = "card"
               /\ interrupt.id = c.interrupt
                    => \E r \in Responders :
                         /\ drawer[r].instance # 0
                         /\ drawer[r].hasDrawn /\ ~drawer[r].isDrawing
                         /\ drawer[r].drawnCards = c.values

C26_SubmitOncePerInstance ==
  \A r \in Responders :
    /\ roller[r].instance # 0
         => /\ Len(roller[r].calls) <= 1
            /\ roller[r].calls # <<>>
                 => /\ roller[r].hasRolled /\ ~roller[r].isRolling
                    /\ roller[r].calls[1].values = roller[r].finalValues
                    /\ roller[r].diceValues = roller[r].finalValues
                    /\ roller[r].calls[1].total = Sum(roller[r].diceValues)
    /\ drawer[r].instance # 0
         => /\ Len(drawer[r].calls) <= 1
            /\ drawer[r].calls # <<>>
                 => /\ drawer[r].hasDrawn /\ ~drawer[r].isDrawing
                    /\ drawer[r].calls[1].values = drawer[r].drawnCards

\* a roll of two dice was submitted some time ago and the roller is still
\* mounted, re-rendered since with another onSubmit
C26_Witness ==
  \E r \in Responders :
    /\ roller[r].instance # 0
    /\ Len(roller[r].calls) = 1
    /\ Len(roller[r].finalValues) = 2
    /\ roller[r].calls[1].total > 2
    /\ roller[r].hasSubmitted
    /\ roller[r].sinceDone > SubmitDelayMs
    /\ roller[r].onSubmit[2] # 0

\* C27: a mounted DiceRoller or CardDrawer whose roll or draw completed
\* SubmitDelayMs or more ago (no timeout being due at this very moment) has
\* invoked onSubmit, however often the parent passed a new onSubmit.
C27_SubmittedWithinDelay ==
  \A r \in Responders :
    /\ (/\ roller[r].instance # 0
        /\ roller[r].hasRolled /\ Len(roller[r].finalValues) > 0
        /\ roller[r].sinceDone >= SubmitDelayMs
        /\ roller[r].timer.left # 0)
       => roller[r].calls # <<>>
    /\ (/\ drawer[r].instance # 0
        /\ drawer[r].hasDrawn /\ Len(drawer[r].drawnCards) > 0
        /\ drawer[r].sinceDone >= SubmitDelayMs
        /\ drawer[r].timer.left # 0)
       => drawer[r].calls # <<>>

\* C28: a call drawCardsFromDeck(deck, count) with len(deck) >= count returns
\* the first count cards as drawn and the rest in order as remaining, drawn
\* followed by remaining being the deck, reshuffled = false, and leaves the
\* deck passed in as it was.
C28_DrawFromSufficientDeck ==
  (lastDraw # NoDraw /\ Len(lastDraw.deck) >= lastDraw.count)
  => /\ lastDraw.drawn = SubSeq(lastDraw.deck, 1, lastDraw.count)
     /\ lastDraw.remaining = SubSeq(lastDraw.deck, lastDraw.count + 1, Len(lastDraw.deck))
     /\ lastDraw.drawn \o lastDraw.remaining = lastDraw.deck
     /\ lastDraw.reshuffled = FALSE
     /\ lastDraw.deckAfter = lastDraw.deck

\* two cards were drawn from a deck that an earlier draw had already taken
\* cards from
C28_Witness ==
  /\ lastDraw # NoDraw
  /\ lastDraw.count = 2
  /\ Len(lastDraw.deck) > 2 /\ Len(lastDraw.deck) < DeckSize
  /\ Len(lastDraw.drawn) = 2
  /\ deck = lastDraw.remaining

\* the cards of a sequence, as a set
Cards(seq) == {seq[k] : k \in DOMAIN seq}

\* the 52 cards: one for each suit and value
FullDeck == {[suit |-> SUITS[a], value |-> VALUES[b]] : a \in DOMAIN SUITS, b \in DOMAIN VALUES}

\* C29: a call drawCardsFromDeck(deck, count) with len(deck) < count returns
\* reshuffled = true and exactly count drawn cards, none of them from the old
\* deck's order; drawn and remaining together are the 52 distinct cards.
C29_ReshuffleDrawsCount ==
  (lastDraw # NoDraw /\ Len(lastDraw.deck) < lastDraw.count)
  => /\ lastDraw.reshuffled = TRUE
     /\ Len(lastDraw.drawn) = lastDraw.count
     /\ Len(lastDraw.drawn) + Len(lastDraw.remaining) = DeckSize
     /\ Cards(lastDraw.drawn \o lastDraw.remaining) = FullDeck
     /\ Cardinality(FullDeck) = DeckSize

\* C29 as the code has it: the same, the number of drawn cards being count
\* when the full deck has that many and the whole deck otherwise.
C29_ReshuffleDrawsUpToDeck ==
  (lastDraw # NoDraw /\ Len(lastDraw.deck) < lastDraw.count)
  => /\ lastDraw.reshuffled = TRUE
     /\ Len(lastDraw.drawn) = Min(lastDraw.count, DeckSize)
     /\ Len(lastDraw.drawn) + Len(lastDraw.remaining) = DeckSize
     /\ Cards(lastDraw.drawn \o lastDraw.remaining) = FullDeck
     /\ Cardinality(FullDeck) = DeckSize
     /\ lastDraw.deckAfter = lastDraw.deck

\* two cards were asked of a deck of one: they came from a new deck, the old
\* card is not lost to it
C29_Witness ==
  /\ lastDraw # NoDraw
  /\ Len(lastDraw.deck) = 1
  /\ lastDraw.count = 2
  /\ lastDraw.reshuffled
  /\ Len(deck) = DeckSize - 2
  /\ lastDraw.deck[1] \in Cards(lastDraw.drawn \o deck)

\* C30: the cards dealt since the deck was last shuffled are pairwise
\* distinct and none of them is in the remaining deck, and a draw without a
\* reshuffle leaves as many cards fewer as it dealt.
C30_NoCardDealtTwice ==
  /\ [](/\ \A a, b \in DOMAIN dealt : dealt[a] = dealt[b] => a = b
        /\ Cards(dealt) \cap Cards(deck) = {})
  /\ [][(lastDraw' # lastDraw /\ lastDraw' # NoDraw /\ ~lastDraw'.reshuffled)
        => Len(deck') = Len(deck) - Len(lastDraw'.drawn)]_vars
====
